---- MODULE Spec2Model ----
(***************************************************************************)
(* koa-api-builder: the ApiBuilder of lib/api-builder.cjs.                 *)
(*                                                                         *)
(* A builder keeps a tree of path elements and a cursor (currentElement).  *)
(* path() opens a group, the verb methods push operations on the current   *)
(* element, end() walks one level up and build() drains the tree into a    *)
(* router.  Path elements live in a heap (a sequence indexed by            *)
(* reference); Null stands for a null or undefined reference.              *)
(***************************************************************************)
EXTENDS Naturals, Sequences, FiniteSets, TLC

VARIABLES
  heap,       \* path elements, by reference (createPathElement's objects)
  builder,    \* builder -> [currentElement, router]
  routers,    \* router -> the registrations it holds, in registration order
  global,     \* globalThis.currentElement (what an unbound path() writes)
  stack,      \* path() calls whose callback is running, innermost last
  invoked,    \* middlewares path() has called as its handler
  error,      \* the error the most recent call threw, or NoError
  returned,   \* builder -> the router its latest build() returned, or Null
  declared,   \* history: element -> what it was created with and the
              \* operations declared on it
  builds,     \* history: builder -> number of build() calls made on it
  open,       \* SpecStyles only: the groups of the description that are
              \* still open, each with the style the second builder uses
  running     \* SpecLoop only: the build() call whose loop is running

vars == <<heap, builder, routers, global, stack, invoked, error, returned,
          declared, builds, open, running>>

\* the state as one record, so that operations compose
S == [heap |-> heap, builder |-> builder, routers |-> routers, global |-> global,
      stack |-> stack, invoked |-> invoked, error |-> error,
      returned |-> returned, declared |-> declared, builds |-> builds,
      open |-> open, running |-> running]

Becomes(t) ==
  /\ heap' = t.heap
  /\ builder' = t.builder
  /\ routers' = t.routers
  /\ global' = t.global
  /\ stack' = t.stack
  /\ invoked' = t.invoked
  /\ error' = t.error
  /\ returned' = t.returned
  /\ declared' = t.declared
  /\ builds' = t.builds
  /\ open' = t.open
  /\ running' = t.running

----------------------------------------------------------------------------
(* Bounds of the model *)

\* path() calls over a run (elements besides the roots)
MaxPaths == 2
\* verb calls over a run
MaxOps == 2
\* build() calls on one builder
MaxBuilds == 2
\* SpecCalls, SpecShared: path and verb calls over a run
MaxCalls == 2
\* SpecLoop: path and verb calls over a run
MaxLoopCalls == 3

(* Values *)

Null == 0
Undefined == "undefined"
NoError == "none"

\* the verbs, in the order of the methods package (http.METHODS order)
methods == <<"get", "post">>
Methods == {methods[i] : i \in 1..Len(methods)}

\* functions with an empty body, as the fixtures of the test suite
Middlewares == {"m1", "m2", "h1", "h2"}
\* a function whose body declares a group: what it does are the calls made
\* until it returns
Callback == "cb"

IsFunction(v) == v \in Middlewares \cup {Callback}

----------------------------------------------------------------------------
(* Helpers on sequences *)

Last(s) == s[Len(s)]
Front(s) == SubSeq(s, 1, Len(s) - 1)

\* Array.prototype.join(''): an undefined element gives no text
RECURSIVE Join(_)
Join(s) ==
  IF s = <<>> THEN ""
  ELSE (IF Head(s) = Undefined THEN "" ELSE Head(s)) \o Join(Tail(s))

----------------------------------------------------------------------------
(* createPathElement *)

\* mutant: the new element does not point to its parent
createPathElementOrphan(currentElement, uri, middlewares) ==
  [visited |-> FALSE,
   parentElement |-> Null,
   children |-> <<>>,
   middlewares |-> middlewares,
   uri |-> uri,
   verbs |-> [m \in Methods |-> <<>>]]

createPathElement(currentElement, uri, middlewares) ==
  [visited |-> FALSE,
   parentElement |-> currentElement,
   children |-> <<>>,
   middlewares |-> middlewares,
   uri |-> uri,
   verbs |-> [m \in Methods |-> <<>>]]

\* what the history keeps of a new element
Declaration(uri, middlewares) ==
  [uri |-> uri, middlewares |-> middlewares, verbs |-> [m \in Methods |-> <<>>]]

(* new ApiBuilder(options): the builder on its root element *)
ApiBuilder(root, router) == [currentElement |-> root, router |-> router]

Builders == DOMAIN builder

\* one builder, no router supplied
Init ==
  /\ builder = [b \in {1} |-> ApiBuilder(1, Null)]
  /\ routers = <<>>
  /\ heap = << createPathElement(Null, "", <<>>) >>
  /\ declared = << Declaration("", <<>>) >>
  /\ global = Null
  /\ stack = <<>>
  /\ invoked = {}
  /\ builds = [b \in {1} |-> 0]
  /\ returned = [b \in {1} |-> Null]
  /\ error = NoError
  /\ open = <<>>
  /\ running = <<>>

----------------------------------------------------------------------------
(* ApiBuilder.prototype[method] *)

\* mutant: the function given first is not put back among the middlewares
VerbRecordDropped(args) ==
  LET uri == IF args = <<>> THEN Undefined ELSE Head(args)
      middlewares == IF args = <<>> THEN <<>> ELSE Tail(args)
  IN IF IsFunction(uri)
     THEN [uri |-> "", middlewares |-> middlewares]
     ELSE [uri |-> uri, middlewares |-> middlewares]

\* the {uri, middlewares} record a verb call builds from its arguments
VerbRecord(args) ==
  LET uri == IF args = <<>> THEN Undefined ELSE Head(args)
      middlewares == IF args = <<>> THEN <<>> ELSE Tail(args)
  IN IF IsFunction(uri)
     THEN [uri |-> "", middlewares |-> <<uri>> \o middlewares]
     ELSE [uri |-> uri, middlewares |-> middlewares]

verbMethod(s, b, method, args) ==
  LET cur == s.builder[b].currentElement
  IN [s EXCEPT
        !.heap[cur].verbs[method] = Append(@, VerbRecord(args)),
        !.declared[cur].verbs[method] = Append(@, VerbRecord(args)),
        !.error = NoError]

Verb(b, method, args) == Becomes(verbMethod(S, b, method, args))

\* a verb method called without a builder as receiver throws at once
unboundVerb(s, method, args) == [s EXCEPT !.error = "Error"]

UnboundVerb(method, args) == Becomes(unboundVerb(S, method, args))

----------------------------------------------------------------------------
(* ApiBuilder.prototype.end *)

\* mutant: end() walks up to the root
RECURSIVE EndElementRoot(_, _)
EndElementRoot(h, currentElement) ==
  IF currentElement # Null /\ h[currentElement].parentElement # Null
  THEN EndElementRoot(h, h[currentElement].parentElement)
  ELSE currentElement

\* mutant: end() walks to the sibling declared just before, if there is one
EndElementSibling(h, currentElement) ==
  IF currentElement # Null /\ h[currentElement].parentElement # Null
  THEN LET siblings == h[h[currentElement].parentElement].children
       IN IF Len(siblings) >= 2 /\ Last(siblings) = currentElement
          THEN siblings[Len(siblings) - 1]
          ELSE h[currentElement].parentElement
  ELSE currentElement

\* the element end() leaves the cursor on
EndElement(h, currentElement) ==
  IF currentElement # Null /\ h[currentElement].parentElement # Null
  THEN h[currentElement].parentElement
  ELSE currentElement

end(s, b) ==
  [s EXCEPT !.builder[b].currentElement = EndElement(s.heap, @),
            !.error = NoError]

End(b) == Becomes(end(S, b))

----------------------------------------------------------------------------
(* ApiBuilder.prototype.path *)

\* mutant: a function given first stays in the place of the uri
PathArgumentsKept(args) ==
  LET given == IF args = <<>> \/ Head(args) = Undefined THEN "" ELSE Head(args)
      rest == IF args = <<>> THEN <<>> ELSE Tail(args)
      middlewares == IF IsFunction(given) THEN <<given>> \o rest ELSE rest
  IN [uri |-> given,
      handler |-> IF middlewares = <<>> THEN Undefined ELSE Last(middlewares),
      middlewares |-> IF middlewares = <<>> THEN <<>> ELSE Front(middlewares)]

\* uri, middlewares and handler as path() reads them from its arguments
PathArguments(args) ==
  LET given == IF args = <<>> \/ Head(args) = Undefined THEN "" ELSE Head(args)
      rest == IF args = <<>> THEN <<>> ELSE Tail(args)
      uri == IF IsFunction(given) THEN "" ELSE given
      middlewares == IF IsFunction(given) THEN <<given>> \o rest ELSE rest
  IN [uri |-> uri,
      handler |-> IF middlewares = <<>> THEN Undefined ELSE Last(middlewares),
      middlewares |-> IF middlewares = <<>> THEN <<>> ELSE Front(middlewares)]

\* mutant: children.unshift(pathElement) in place of children.push(pathElement)
PathHeapUnshift(h, currentElement, a) ==
  LET pathElement == createPathElement(currentElement, a.uri, a.middlewares)
      pushed == IF currentElement # Null
                THEN [h EXCEPT ![currentElement].children = <<Len(h) + 1>> \o @]
                ELSE h
  IN Append(pushed, pathElement)

\* the heap after createPathElement and the push on the current element
PathHeap(h, currentElement, a) ==
  LET pathElement == createPathElement(currentElement, a.uri, a.middlewares)
      pushed == IF currentElement # Null
                THEN [h EXCEPT ![currentElement].children = Append(@, Len(h) + 1)]
                ELSE h
  IN Append(pushed, pathElement)

\* path() up to the call of its handler: with a callback as handler the call
\* stays on the stack while the callback runs (its body is the calls that
\* follow); any other handler has an empty body, and this.end() follows at once
path(s, b, args) ==
  LET a == PathArguments(args)
      pathElement == Len(s.heap) + 1
      entered ==
        [s EXCEPT !.heap = PathHeap(s.heap, s.builder[b].currentElement, a),
                  !.declared = Append(@, Declaration(a.uri, a.middlewares)),
                  !.builder[b].currentElement = pathElement,
                  !.error = NoError]
  IN IF a.handler = Undefined THEN entered
     ELSE IF a.handler = Callback
     THEN [entered EXCEPT
             !.stack = Append(@, [this |-> b, pathElement |-> pathElement])]
     ELSE [end(entered, b) EXCEPT !.invoked = @ \cup {a.handler}]

Path(b, args) == Becomes(path(S, b, args))

\* the callback of the innermost running path() returns: this.end(), return this
return(s) == [end(s, Last(s.stack).this) EXCEPT !.stack = Front(@)]

Return == stack # <<>> /\ Becomes(return(S))

\* the callback of the innermost running path() throws: handler(this) does
\* not return, so path() is left before this.end() and the caller gets the
\* error
throw(s) == [s EXCEPT !.stack = Front(@), !.error = "Error"]

Throw == stack # <<>> /\ Becomes(throw(S))

\* path called without a receiver: the file is not in strict mode, so this is
\* the global object; it gets a currentElement, and it has no end()
unboundPath(s, args) ==
  LET a == PathArguments(args)
      entered ==
        [s EXCEPT !.heap = PathHeap(s.heap, s.global, a),
                  !.declared = Append(@, Declaration(a.uri, a.middlewares)),
                  !.global = Len(s.heap) + 1,
                  !.error = NoError]
  IN IF a.handler = Undefined THEN entered
     ELSE \* handler(this) on the global object, then this.end is not a function
          [entered EXCEPT
             !.error = "TypeError",
             !.invoked = IF a.handler = Callback THEN @ ELSE @ \cup {a.handler}]

UnboundPath(args) == Becomes(unboundPath(S, args))

----------------------------------------------------------------------------
(* mountUri *)

\* mutant: each uri is pushed instead of unshifted
RECURSIVE mountPathPushed(_, _)
mountPathPushed(h, current) ==
  IF current = Null THEN <<>>
  ELSE <<h[current].uri>> \o mountPathPushed(h, h[current].parentElement)

\* the while loop of mountUri: each uri is unshifted, so the root's comes first
RECURSIVE mountPath(_, _)
mountPath(h, current) ==
  IF current = Null THEN <<>>
  ELSE mountPath(h, h[current].parentElement) \o <<h[current].uri>>

mountUri(h, element, op) == Join(Append(mountPath(h, element), op.uri))

----------------------------------------------------------------------------
(* drain *)

\* router[verb](path, ...handlers): the router records the verb, the path and
\* the handlers; element and index tell which declaration the call was made
\* for (the index-th operation pushed on element[verb])
Registration(verb, h, element, op, index) ==
  [verb |-> verb,
   path |-> mountUri(h, element, op),
   handlers |-> h[element].middlewares \o op.middlewares,
   element |-> element,
   index |-> index]

\* mutant: if (op) in place of while (op), one operation is popped
drainOnce(verb, router, element, h) ==
  IF h[element].verbs[verb] = <<>>
  THEN [heap |-> h, router |-> router]
  ELSE LET op == Last(h[element].verbs[verb])
           index == Len(h[element].verbs[verb])
           popped == [h EXCEPT ![element].verbs[verb] = Front(@)]
       IN [heap |-> popped,
           router |-> Append(router, Registration(verb, popped, element, op, index))]

\* mutant: element[verb] is read from its end and left as it is
RECURSIVE installFrom(_, _, _, _, _)
installFrom(index, verb, router, element, h) ==
  IF index = 0 THEN router
  ELSE installFrom(index - 1, verb,
                   Append(router, Registration(verb, h, element,
                                               h[element].verbs[verb][index], index)),
                   element, h)
drainKept(verb, router, element, h) ==
  [heap |-> h,
   router |-> installFrom(Len(h[element].verbs[verb]), verb, router, element, h)]

\* pops element[verb] until it is empty and installs each operation
RECURSIVE drain(_, _, _, _)
drain(verb, router, element, h) ==
  IF h[element].verbs[verb] = <<>>
  THEN [heap |-> h, router |-> router]
  ELSE LET op == Last(h[element].verbs[verb])
           index == Len(h[element].verbs[verb])
           popped == [h EXCEPT ![element].verbs[verb] = Front(@)]
       IN drain(verb,
                Append(router, Registration(verb, popped, element, op, index)),
                element, popped)

\* mutant: only the first of the methods is drained
drainMethodsFirst(i, router, element, h) == drain(methods[1], router, element, h)

\* for (const method of methods) drain(method, router, element)
RECURSIVE drainMethods(_, _, _, _)
drainMethods(i, router, element, h) ==
  IF i > Len(methods) THEN [heap |-> h, router |-> router]
  ELSE LET d == drain(methods[i], router, element, h)
       IN drainMethods(i + 1, d.router, element, d.heap)

----------------------------------------------------------------------------
(* ApiBuilder.prototype.build *)

\* mutant: the child keeps its own middlewares only
InheritNothing(h, element, child) == h

\* child.middlewares = [...element.middlewares, ...child.middlewares]
Inherit(h, element, child) ==
  [h EXCEPT ![child].middlewares = h[element].middlewares \o @]

\* mutant: element.children.shift() in place of element.children.pop()
RECURSIVE buildLoopShift(_, _, _)
buildLoopShift(element, router, h) ==
  IF element = Null THEN [heap |-> h, router |-> router]
  ELSE LET e == IF h[element].visited THEN h[element].parentElement ELSE element
       IN IF e = Null THEN [heap |-> h, router |-> router]
          ELSE LET d == drainMethods(1, router, e, h)
                   children == d.heap[e].children
               IN IF children # <<>>
                  THEN LET child == Head(children)
                           popped == [d.heap EXCEPT ![e].children = Tail(@)]
                       IN buildLoopShift(child, d.router, Inherit(popped, e, child))
                  ELSE buildLoopShift(e, d.router, [d.heap EXCEPT ![e].visited = TRUE])

\* the while (element) loop
RECURSIVE buildLoop(_, _, _)
buildLoop(element, router, h) ==
  IF element = Null THEN [heap |-> h, router |-> router]
  ELSE LET e == IF h[element].visited THEN h[element].parentElement ELSE element
       IN IF e = Null THEN [heap |-> h, router |-> router]
          ELSE LET d == drainMethods(1, router, e, h)
                   children == d.heap[e].children
               IN IF children # <<>>
                  THEN LET child == Last(children)
                           popped == [d.heap EXCEPT ![e].children = Front(@)]
                       IN buildLoop(child, d.router, Inherit(popped, e, child))
                  ELSE buildLoop(e, d.router, [d.heap EXCEPT ![e].visited = TRUE])

\* mutant: an element without children is not marked as visited
buildIterationUnmarked(element, router, h) ==
  LET e == IF h[element].visited THEN h[element].parentElement ELSE element
  IN IF e = Null
     THEN [element |-> Null, heap |-> h, router |-> router, child |-> Null]
     ELSE LET d == drainMethods(1, router, e, h)
              children == d.heap[e].children
          IN IF children # <<>>
             THEN LET child == Last(children)
                      popped == [d.heap EXCEPT ![e].children = Front(@)]
                  IN [element |-> child, heap |-> Inherit(popped, e, child),
                      router |-> d.router, child |-> child]
             ELSE [element |-> e, heap |-> d.heap, router |-> d.router,
                   child |-> Null]

\* one pass through the body of the while (element) loop: the element the
\* next pass starts on, and the child this pass took, if it took one
buildIteration(element, router, h) ==
  LET e == IF h[element].visited THEN h[element].parentElement ELSE element
  IN IF e = Null
     THEN [element |-> Null, heap |-> h, router |-> router, child |-> Null]
     ELSE LET d == drainMethods(1, router, e, h)
              children == d.heap[e].children
          IN IF children # <<>>
             THEN LET child == Last(children)
                      popped == [d.heap EXCEPT ![e].children = Front(@)]
                  IN [element |-> child, heap |-> Inherit(popped, e, child),
                      router |-> d.router, child |-> child]
             ELSE [element |-> e, heap |-> [d.heap EXCEPT ![e].visited = TRUE],
                   router |-> d.router, child |-> Null]

\* mutant: new Router() whatever the builder was given
BuildRouterNew(s, b) == Len(s.routers) + 1

\* this.router || new Router(): the router build() registers into
BuildRouter(s, b) ==
  IF s.builder[b].router # Null THEN s.builder[b].router ELSE Len(s.routers) + 1

build(s, b) ==
  LET router == BuildRouter(s, b)
      before == IF router > Len(s.routers) THEN <<>> ELSE s.routers[router]
      r == buildLoop(s.builder[b].currentElement, before, s.heap)
  IN [s EXCEPT
        !.heap = r.heap,
        !.routers = IF router > Len(s.routers) THEN Append(@, r.router)
                    ELSE [@ EXCEPT ![router] = r.router],
        !.returned[b] = router,
        !.builds[b] = @ + 1,
        !.error = NoError]

Build(b) == Becomes(build(S, b))

----------------------------------------------------------------------------
(* The calls of a program that describes one api and then builds it: each   *)
(* builder is a one-time shot, so nothing is declared on a built builder.   *)

PathCalls == { <<"/a">>, <<"/b", "m1", Callback>>, <<"m2", Callback>> }
VerbCalls ==
  { [method |-> "get", args |-> <<"/c", "h2">>],
    [method |-> "post", args |-> <<"h1">>] }

\* the number of operations declared so far
Operations(h) ==
  LET n[e \in 1..Len(h), i \in 0..Len(methods)] ==
        IF i = 0 THEN 0 ELSE n[e, i - 1] + Len(h[e].verbs[methods[i]])
      sum[e \in 0..Len(h)] ==
        IF e = 0 THEN 0 ELSE sum[e - 1] + n[e, Len(methods)]
  IN sum[Len(h)]

CanPath(b) == builds[b] = 0 /\ Len(heap) < Cardinality(Builders) + MaxPaths
CanVerb(b) == builds[b] = 0 /\ Operations(declared) < MaxOps
CanBuild(b) == builds[b] < MaxBuilds

Next ==
  \/ \E b \in Builders, c \in VerbCalls : CanVerb(b) /\ Verb(b, c.method, c.args)
  \/ \E b \in Builders, args \in PathCalls : CanPath(b) /\ Path(b, args)
  \/ \E b \in Builders : End(b)
  \/ Return
  \/ \E b \in Builders : CanBuild(b) /\ Build(b)

Spec == Init /\ [][Next]_vars

----------------------------------------------------------------------------
(* SpecCalls: a few calls, of every shape the methods accept.               *)

Uris == {"", "/a"}
\* the optional leading uri
Leading == {<<>>} \cup {<<u>> : u \in Uris}
FunctionLists == {<<>>, <<"m1">>, <<"m1", "m2">>}

AllPathCalls ==
  {u \o f \o c : u \in Leading, f \in FunctionLists, c \in {<<>>, <<Callback>>}}
AllVerbCalls == {u \o f : u \in Leading, f \in FunctionLists}

CallsLeft ==
  (Len(heap) - Cardinality(Builders)) + Operations(declared) < MaxCalls
CanDeclare(b) == builds[b] = 0 /\ CallsLeft

NextCalls ==
  \/ \E b \in Builders, m \in Methods, args \in AllVerbCalls :
       CanDeclare(b) /\ Verb(b, m, args)
  \/ \E b \in Builders, args \in AllPathCalls : CanDeclare(b) /\ Path(b, args)
  \/ \E b \in Builders : End(b)
  \/ Return

SpecCalls == Init /\ [][NextCalls]_vars

----------------------------------------------------------------------------
(* SpecUnbound: the program of Spec, which may also call a method taken    *)
(* off the builder (destructured), so that it runs without its receiver.    *)

UnboundPathCalls == PathCalls \cup { <<"/a", "m2">> }

NextUnbound ==
  \/ Next
  \/ \E c \in VerbCalls : UnboundVerb(c.method, c.args)
  \/ \E args \in UnboundPathCalls :
       Len(heap) < Cardinality(Builders) + MaxPaths /\ UnboundPath(args)

SpecUnbound == Init /\ [][NextUnbound]_vars

----------------------------------------------------------------------------
(* SpecThrow: the program of Spec, whose callbacks may throw.               *)

NextThrow ==
  \/ Next
  \/ Throw

SpecThrow == Init /\ [][NextThrow]_vars

----------------------------------------------------------------------------
(* SpecShared: two builders; each was given the router made beforehand     *)
(* (router 1) or none.                                                      *)

InitShared ==
  /\ \E supplied \in [{1, 2} -> {1, Null}] :
       builder = [b \in {1, 2} |-> ApiBuilder(b, supplied[b])]
  /\ routers = << <<>> >>
  /\ heap = << createPathElement(Null, "", <<>>), createPathElement(Null, "", <<>>) >>
  /\ declared = << Declaration("", <<>>), Declaration("", <<>>) >>
  /\ global = Null
  /\ stack = <<>>
  /\ invoked = {}
  /\ builds = [b \in {1, 2} |-> 0]
  /\ returned = [b \in {1, 2} |-> Null]
  /\ error = NoError
  /\ open = <<>>
  /\ running = <<>>

NextShared ==
  \/ \E b \in Builders, c \in VerbCalls :
       CanDeclare(b) /\ Verb(b, c.method, c.args)
  \/ \E b \in Builders : CanDeclare(b) /\ Path(b, <<"/a">>)
  \/ \E b \in Builders : End(b)
  \/ \E b \in Builders : CanBuild(b) /\ Build(b)

SpecShared == InitShared /\ [][NextShared]_vars

----------------------------------------------------------------------------
(* SpecStyles: one description of an api written twice, group by group:    *)
(* builder 1 writes every group in chain-call style, path(...) ... end(),   *)
(* builder 2 writes each group in callback style or in chain-call style.    *)

InitStyles ==
  /\ builder = [b \in {1, 2} |-> ApiBuilder(b, Null)]
  /\ routers = <<>>
  /\ heap = << createPathElement(Null, "", <<>>), createPathElement(Null, "", <<>>) >>
  /\ declared = << Declaration("", <<>>), Declaration("", <<>>) >>
  /\ global = Null
  /\ stack = <<>>
  /\ invoked = {}
  /\ builds = [b \in {1, 2} |-> 0]
  /\ returned = [b \in {1, 2} |-> Null]
  /\ error = NoError
  /\ open = <<>>
  /\ running = <<>>

\* the uri and the middlewares of a described group
GroupCalls == { <<"/a">>, <<"/b", "m1">> }
Styles == {"chain", "callback"}

OpenGroup(args, style) ==
  /\ builds[1] = 0
  /\ Len(heap) < 2 + 2 * MaxPaths
  /\ LET first == path(S, 1, args)
         second == path(first, 2, IF style = "callback"
                                  THEN Append(args, Callback) ELSE args)
     IN Becomes([second EXCEPT !.open = Append(@, style)])

DeclareVerb(c) ==
  /\ builds[1] = 0
  /\ Operations(declared) < 2 * MaxOps
  /\ Becomes(verbMethod(verbMethod(S, 1, c.method, c.args), 2, c.method, c.args))

CloseGroup ==
  /\ open # <<>>
  /\ LET first == end(S, 1)
         second == IF Last(open) = "callback" THEN return(first)
                   ELSE end(first, 2)
     IN Becomes([second EXCEPT !.open = Front(@)])

BuildBoth ==
  /\ open = <<>>
  /\ builds[1] = 0
  /\ Becomes(build(build(S, 1), 2))

NextStyles ==
  \/ \E args \in GroupCalls, style \in Styles : OpenGroup(args, style)
  \/ \E c \in VerbCalls : DeclareVerb(c)
  \/ CloseGroup
  \/ BuildBoth

SpecStyles == InitStyles /\ [][NextStyles]_vars

----------------------------------------------------------------------------
(* SpecLoop: the program of Spec, with build() run one pass of its loop at  *)
(* a time.  build() runs to its end once called: nothing else happens      *)
(* while it runs, and each pass that can be made is made.                   *)

\* const router = this.router || new Router(); let element = this.currentElement
\* (children and whole are history: the children the loop went down into,
\* and what build run in one piece makes of the state of the call)
BuildCall(b) ==
  /\ running = <<>>
  /\ LET router == BuildRouter(S, b)
     IN Becomes([S EXCEPT
          !.routers = IF router > Len(routers) THEN Append(@, <<>>) ELSE @,
          !.running = << [this |-> b,
                          element |-> builder[b].currentElement,
                          router |-> router,
                          children |-> <<>>,
                          whole |-> [heap |-> build(S, b).heap,
                                     routers |-> build(S, b).routers]] >>])

\* the condition of the while loop: a pass can be made
CanIterate == running # <<>> /\ running[1].element # Null

\* while (element) { ... }
BuildIterate ==
  /\ CanIterate
  /\ LET f == running[1]
         it == buildIteration(f.element, routers[f.router], heap)
     IN Becomes([S EXCEPT
          !.heap = it.heap,
          !.routers[f.router] = it.router,
          !.running[1].element = it.element,
          !.running[1].children =
             IF it.child # Null THEN Append(@, it.child) ELSE @])

\* return router
BuildReturn ==
  /\ running # <<>>
  /\ running[1].element = Null
  /\ LET f == running[1]
     IN Becomes([S EXCEPT
          !.returned[f.this] = f.router,
          !.builds[f.this] = @ + 1,
          !.error = NoError,
          !.running = <<>>])

LoopCallsLeft ==
  (Len(heap) - Cardinality(Builders)) + Operations(declared) < MaxLoopCalls
CanCall(b) == running = <<>> /\ builds[b] = 0 /\ LoopCallsLeft

NextLoop ==
  \/ \E b \in Builders, c \in VerbCalls : CanCall(b) /\ Verb(b, c.method, c.args)
  \/ \E b \in Builders, args \in PathCalls : CanCall(b) /\ Path(b, args)
  \/ \E b \in Builders : running = <<>> /\ End(b)
  \/ running = <<>> /\ Return
  \/ \E b \in Builders : CanBuild(b) /\ BuildCall(b)
  \/ BuildIterate
  \/ BuildReturn

\* WF_vars(BuildIterate) /\ WF_vars(BuildReturn), the first with
\* ENABLED <<BuildIterate>>_vars written out as CanIterate: a pass is made
\* whenever the loop condition holds, and every pass changes the state
SpecLoop ==
  /\ Init
  /\ [][NextLoop]_vars
  /\ ([]<>(~CanIterate) \/ []<><<BuildIterate>>_vars)
  /\ WF_vars(BuildReturn)

----------------------------------------------------------------------------
(* What the declarations mean, read from the history *)

\* every registration held by a router, as <<router, position>>
Registrations ==
  UNION {{<<r, i>> : i \in 1..Len(routers[r])} : r \in 1..Len(routers)}
Reg(x) == routers[x[1]][x[2]]

\* the declaration a registration was issued for
DeclarationOf(g) == declared[g.element].verbs[g.verb][g.index]

\* every declaration made, as <<element, verb, index>>
Declarations ==
  UNION {{<<e, m, i>> : i \in 1..Len(declared[e].verbs[m])} :
           e \in 1..Len(declared), m \in Methods}

\* the root above an element: that of builder b is element b
RECURSIVE RootOf(_)
RootOf(e) ==
  IF heap[e].parentElement = Null THEN e ELSE RootOf(heap[e].parentElement)

\* the declared fragments from the root down to element e, concatenated
RECURSIVE DeclaredPath(_)
DeclaredPath(e) ==
  IF e = Null THEN ""
  ELSE DeclaredPath(heap[e].parentElement) \o declared[e].uri

\* the declared middlewares of the groups from the root down to element e
RECURSIVE DeclaredMiddlewares(_)
DeclaredMiddlewares(e) ==
  IF e = Null THEN <<>>
  ELSE DeclaredMiddlewares(heap[e].parentElement) \o declared[e].middlewares

Fragment(uri) == IF uri = Undefined THEN "" ELSE uri

Cursor(b) == builder[b].currentElement

----------------------------------------------------------------------------
(* C1: the path of every registration is the concatenation, with nothing   *)
(* added, of the declared fragments of the declaring element's ancestors    *)
(* from the root down to it, followed by the operation's own fragment.      *)
C1_PathIsConcatenation ==
  \A x \in Registrations :
    Reg(x).path = DeclaredPath(Reg(x).element) \o Fragment(DeclarationOf(Reg(x)).uri)

\* a route two groups deep, each group and the operation with a fragment
C1_Witness ==
  \E x \in Registrations :
    /\ Reg(x).path = "/b/a/c"
    /\ declared[Reg(x).element].uri = "/a"
    /\ DeclarationOf(Reg(x)).uri = "/c"

(* C2: the handlers of every registration are the declared middlewares of   *)
(* every ancestor group from the root down to the declaring element,        *)
(* followed by the operation's own, whatever element build started on.      *)
C2_HandlersAreInherited ==
  \A x \in Registrations :
    Reg(x).handlers =
      DeclaredMiddlewares(Reg(x).element) \o DeclarationOf(Reg(x)).middlewares

(* C3: once a builder is built, every operation declared on its tree has    *)
(* exactly one registration, and before it is built it has none; there is   *)
(* no registration without a declaration.                                   *)
C3_OneRegistrationEach ==
  /\ \A d \in Declarations :
       LET issued == {x \in Registrations :
                        <<Reg(x).element, Reg(x).verb, Reg(x).index>> = d}
           b == RootOf(d[1])
       IN b \in Builders =>
            Cardinality(issued) = IF builds[b] = 0 THEN 0 ELSE 1
  /\ \A x \in Registrations :
       <<Reg(x).element, Reg(x).verb, Reg(x).index>> \in Declarations

\* built from a group, with the same verb declared twice on one element
C3_Witness ==
  /\ builds[1] = 1
  /\ Cursor(1) # 1
  /\ \E e \in 1..Len(declared) : Len(declared[e].verbs["get"]) = 2
  /\ Cardinality(Registrations) = 2

(* C4: a callback passed to path runs with the cursor on the new child,     *)
(* and when path returns the cursor is on the element that was current      *)
(* before the call, whatever the callback did.                              *)
C4_CallbackScope ==
  [][/\ Len(stack') > Len(stack) =>
          /\ builder'[Last(stack').this].currentElement = Len(heap')
          /\ Last(stack').pathElement = Len(heap')
          /\ Len(heap') = Len(heap) + 1
     /\ Len(stack') < Len(stack) =>
          builder'[Last(stack).this].currentElement =
            heap[Last(stack).pathElement].parentElement
    ]_vars

(* C5: a description written in chain-call style and written in callback  *)
(* style, or in a mix of both, gives the same registrations.                *)
Routes(r) ==
  {[verb |-> routers[r][i].verb, path |-> routers[r][i].path,
    handlers |-> routers[r][i].handlers] : i \in 1..Len(routers[r])}

C5_StylesAgree ==
  (builds[1] = 1 /\ builds[2] = 1) =>
     /\ Routes(returned[1]) = Routes(returned[2])
     /\ Len(routers[returned[1]]) = Len(routers[returned[2]])

(* C6: path called with a uri and middlewares and no callback creates a     *)
(* child with exactly these middlewares, calls none of them, and leaves     *)
(* the cursor on the child.                                                 *)
C6_ChainPathKeepsMiddlewares ==
  [][\A b \in Builders, u \in Uris, f \in FunctionLists \ {<<>>} :
       Path(b, <<u>> \o f) =>
          /\ heap'[Len(heap')].middlewares = f
          /\ invoked' = invoked
          /\ stack' = stack
          /\ builder'[b].currentElement = Len(heap')
    ]_vars

(* C7: a verb method or path called without the builder as receiver throws  *)
(* at once and changes nothing.                                             *)
C7_UnboundCallsThrow ==
  [][(\/ \E c \in VerbCalls : UnboundVerb(c.method, c.args)
      \/ \E args \in UnboundPathCalls : UnboundPath(args)) =>
          /\ error' # NoError
          /\ UNCHANGED <<heap, builder, routers, global, stack, invoked, returned,
                         declared, builds>>
    ]_vars

(* C8: build on a builder that is already built registers nothing more on   *)
(* any router and does not throw.                                           *)
C8_SecondBuildRegistersNothing ==
  [][\A b \in Builders :
       (builds[b] >= 1 /\ builds'[b] = builds[b] + 1) =>
          /\ error' = NoError
          /\ \A r \in 1..Len(routers') :
               routers'[r] = IF r <= Len(routers) THEN routers[r] ELSE <<>>
    ]_vars

\* built twice from a group, with registrations made by the first build
C8_Witness ==
  /\ builds[1] = 2
  /\ Cursor(1) # 1
  /\ Cardinality(Registrations) = 2

(* C9: build returns the router the builder was given, with its earlier     *)
(* registrations kept and the builder's own added after them, or a router   *)
(* made by this build that holds the builder's registrations and no other;  *)
(* no other router changes, and once the builders that share a router are   *)
(* all built it holds the registrations of each of them.                    *)
Tag(g) == <<g.element, g.verb, g.index>>
DeclarationsOf(b) == {d \in Declarations : RootOf(d[1]) = b}

C9_BuildStep(b) ==
  LET r == returned'[b]
      given == builder[b].router
      before == IF given # Null THEN routers[given] ELSE <<>>
      added == SubSeq(routers'[r], Len(before) + 1, Len(routers'[r]))
  IN /\ IF given # Null
        THEN /\ r = given
             /\ Len(routers') = Len(routers)
        ELSE /\ r = Len(routers) + 1
             /\ Len(routers') = Len(routers) + 1
     /\ Len(routers'[r]) >= Len(before)
     /\ SubSeq(routers'[r], 1, Len(before)) = before
     /\ \A q \in 1..Len(routers) : q # r => routers'[q] = routers[q]
     /\ {Tag(added[i]) : i \in 1..Len(added)} =
          IF builds[b] = 0 THEN DeclarationsOf(b) ELSE {}
     /\ Len(added) = IF builds[b] = 0 THEN Cardinality(DeclarationsOf(b)) ELSE 0

C9_SharedRouterHoldsAll ==
  \A r \in 1..Len(routers) :
    LET sharing == {b \in Builders : builder[b].router = r}
    IN (\A b \in sharing : builds[b] >= 1) =>
         \A b \in sharing : \A d \in DeclarationsOf(b) :
           \E i \in 1..Len(routers[r]) : Tag(routers[r][i]) = d

C9_RouterReuse ==
  /\ [][\A b \in Builders : builds'[b] = builds[b] + 1 => C9_BuildStep(b)]_vars
  /\ []C9_SharedRouterHoldsAll

\* two builders on the router they were given, both built, one route each
C9_Witness ==
  /\ builder[1].router = 1 /\ builder[2].router = 1
  /\ builds[1] >= 1 /\ builds[2] >= 1
  /\ {RootOf(routers[1][i].element) : i \in 1..Len(routers[1])} = {1, 2}

(* C10 as stated: a verb called with a function first appends a record      *)
(* with an empty fragment whose only middleware is that function.           *)
C10_SoleMiddleware ==
  [][\A b \in Builders, m \in Methods, args \in AllVerbCalls :
       (args # <<>> /\ IsFunction(Head(args)) /\ Verb(b, m, args)) =>
          heap'[Cursor(b)].verbs[m] =
            Append(heap[Cursor(b)].verbs[m],
                   [uri |-> "", middlewares |-> <<Head(args)>>])
    ]_vars

(* C10 amended: a verb called with a function first appends a record with   *)
(* an empty fragment whose middlewares are that function followed by the    *)
(* remaining arguments, in call order.                                      *)
C10_FunctionFirst ==
  [][\A b \in Builders, m \in Methods, args \in AllVerbCalls :
       (args # <<>> /\ IsFunction(Head(args)) /\ Verb(b, m, args)) =>
          heap'[Cursor(b)].verbs[m] =
            Append(heap[Cursor(b)].verbs[m], [uri |-> "", middlewares |-> args])
    ]_vars

\* after get(m1, m2)
C10_Witness ==
  \E e \in 1..Len(heap) :
    /\ Len(heap[e].verbs["get"]) = 1
    /\ heap[e].verbs["get"][1] = [uri |-> "", middlewares |-> <<"m1", "m2">>]

(* C11: omitting the uri is never an error: a verb or path call whose first *)
(* argument is a function does to the tree, the cursor and the eventual     *)
(* registrations what the same call does with "" put before that function;  *)
(* path() with no argument creates a child with "" as uri and no            *)
(* middlewares.                                                             *)
C11_OmittedUri ==
  [][/\ \A b \in Builders, m \in Methods, args \in AllVerbCalls :
          (args # <<>> /\ IsFunction(Head(args)) /\ Verb(b, m, args)) =>
             /\ error' = NoError
             /\ Becomes(verbMethod(S, b, m, <<"">> \o args))
             /\ build(verbMethod(S, b, m, args), b).routers =
                  build(verbMethod(S, b, m, <<"">> \o args), b).routers
     /\ \A b \in Builders, args \in AllPathCalls :
          (args # <<>> /\ IsFunction(Head(args)) /\ Path(b, args)) =>
             /\ error' = NoError
             /\ Becomes(path(S, b, <<"">> \o args))
             /\ build(path(S, b, args), b).routers =
                  build(path(S, b, <<"">> \o args), b).routers
     /\ \A b \in Builders :
          Path(b, <<>>) =>
             /\ error' = NoError
             /\ Len(heap') = Len(heap) + 1
             /\ heap'[Len(heap')].uri = ""
             /\ heap'[Len(heap')].middlewares = <<>>
             /\ heap'[Len(heap')].parentElement = Cursor(b)
    ]_vars

\* a group opened by a call that starts with m1, and a post(m1)
C11_Witness ==
  /\ \E e \in 2..Len(heap) : heap[e].uri = "" /\ heap[e].middlewares = <<"m1">>
  /\ \E e \in 1..Len(heap) :
       heap[e].verbs["post"] = << [uri |-> "", middlewares |-> <<"m1">>] >>

(* C12: end moves the cursor to the parent of the current element when it   *)
(* has one and changes nothing else; on the root it changes nothing and     *)
(* does not throw.                                                          *)
C12_EndFrame ==
  [][\A b \in Builders :
       End(b) =>
          /\ error' = NoError
          /\ builder'[b].currentElement =
               IF heap[Cursor(b)].parentElement # Null
               THEN heap[Cursor(b)].parentElement ELSE Cursor(b)
          /\ builder'[b].router = builder[b].router
          /\ \A o \in Builders \ {b} : builder'[o] = builder[o]
          /\ UNCHANGED <<heap, routers, global, stack, invoked, returned,
                         declared, builds>>
    ]_vars

\* two groups deep in chain-call style, then end(): the cursor is on the
\* first group
C12_Witness ==
  /\ Len(heap) = 3
  /\ heap[2].uri = "/a" /\ heap[3].uri = "/a"
  /\ heap[3].parentElement = 2
  /\ Cursor(1) = 2
  /\ stack = <<>>

(* C13: when build returns, every element of the builder's tree has no      *)
(* operation left for any verb and no child left, whatever element the      *)
(* cursor was on.                                                           *)
C13_BuildConsumes ==
  [][\A b \in Builders :
       builds'[b] = builds[b] + 1 =>
          \A e \in 1..Len(heap') :
             RootOf(e) = b =>
                /\ heap'[e].children = <<>>
                /\ \A m \in Methods : heap'[e].verbs[m] = <<>>
    ]_vars

\* built from a group, with a post declared on the root and a get below
C13_Witness ==
  /\ builds[1] = 1
  /\ Cursor(1) # 1
  /\ Len(declared[1].verbs["post"]) = 1
  /\ \E e \in 2..Len(declared) : Len(declared[e].verbs["get"]) = 1
  /\ \A e \in 1..Len(heap) : heap[e].children = <<>>

(* C14: every element keeps the middlewares it was created with through     *)
(* every later operation, build included.                                   *)
C14_MiddlewaresKept ==
  \A e \in 1..Len(heap) : heap[e].middlewares = declared[e].middlewares

(* C15: registrations are issued last-declared-first: of two operations of  *)
(* one verb on one element the later declared is registered first, and      *)
(* every registration below the later declared of two sibling groups comes *)
(* before any registration below the earlier declared one.                  *)
RECURSIVE Ancestors(_)
Ancestors(e) ==
  IF e = Null THEN {} ELSE {e} \cup Ancestors(heap[e].parentElement)

\* e and f are below two distinct children of one element, e below the one
\* declared later
BelowLaterSibling(e, f) ==
  \E se \in Ancestors(e), sf \in Ancestors(f) :
     /\ se > sf
     /\ heap[se].parentElement # Null
     /\ heap[se].parentElement = heap[sf].parentElement

C15_LastDeclaredFirst ==
  \A r \in 1..Len(routers) : \A i, j \in 1..Len(routers[r]) :
     LET x == routers[r][i]
         y == routers[r][j]
     IN /\ (x.element = y.element /\ x.verb = y.verb /\ x.index > y.index)
             => i < j
        /\ BelowLaterSibling(x.element, y.element) => i < j

\* a route in each of two sibling groups, both registered
C15_Witness ==
  \E x, y \in Registrations :
     /\ BelowLaterSibling(Reg(x).element, Reg(y).element)
     /\ x[1] = y[1]

(* C16: build terminates from every tree and every cursor position: it      *)
(* goes down into each child at most once, marks an element visited when    *)
(* the element has no child left, goes on from the parent of a visited      *)
(* element, and returns once the root is visited and no parent is left; it  *)
(* leaves the tree and the routers as build run in one piece leaves them.   *)
NoDuplicates(q) == \A i, j \in 1..Len(q) : q[i] = q[j] => i = j

C16_Pass ==
  LET f == running[1]
      g == running'[1]
      e == IF heap[f.element].visited THEN heap[f.element].parentElement
           ELSE f.element
  IN IF e = Null THEN g.element = Null /\ heap' = heap
     ELSE IF heap[e].children # <<>>
     THEN /\ g.element = Last(heap[e].children)
          /\ heap'[e].children = Front(heap[e].children)
          /\ heap'[e].visited = heap[e].visited
     ELSE /\ g.element = e
          /\ heap'[e].visited

C16_BuildTerminates ==
  /\ (running # <<>>) ~> (running = <<>>)
  /\ [][BuildIterate => C16_Pass]_vars
  /\ [][BuildReturn =>
          /\ heap[RootOf(Cursor(running[1].this))].visited
          /\ heap = running[1].whole.heap
          /\ routers = running[1].whole.routers
       ]_vars
  /\ [](running # <<>> => NoDuplicates(running[1].children))

\* a build started on a group that has a child, after its last pass: it went
\* down into both groups
C16_Witness ==
  /\ running # <<>>
  /\ running[1].element = Null
  /\ Len(running[1].children) = 2
  /\ heap[Cursor(1)].parentElement # Null
  /\ Cardinality(Registrations) >= 1

(* C17: when the callback passed to path throws, the caller of path gets    *)
(* the error and the cursor is back on the element that was current before  *)
(* the path call.                                                           *)
C17_ThrowRestoresCursor ==
  [][Throw =>
       /\ error' # NoError
       /\ builder'[Last(stack).this].currentElement =
            heap[Last(stack).pathElement].parentElement
    ]_vars

(* C18: before build, construction only appends: a path call adds one new   *)
(* element as the last child of the current element, with that element as   *)
(* its parent, and changes nothing else of the tree; a verb call appends    *)
(* one record to the current element's list of that verb and changes no     *)
(* other list, no other element and not the cursor; no call removes or      *)
(* reorders a child or a record.                                            *)
IsPrefix(p, q) == Len(p) <= Len(q) /\ SubSeq(q, 1, Len(p)) = p

C18_OnlyAppends ==
  [][/\ \A b \in Builders, args \in AllPathCalls :
          Path(b, args) =>
             LET cur == Cursor(b)
                 new == Len(heap) + 1
             IN /\ Len(heap') = new
                /\ heap'[new].parentElement = cur
                /\ heap'[new].children = <<>>
                /\ \A m \in Methods : heap'[new].verbs[m] = <<>>
                /\ heap'[cur] = [heap[cur] EXCEPT !.children = Append(@, new)]
                /\ \A e \in 1..Len(heap) : e # cur => heap'[e] = heap[e]
     /\ \A b \in Builders, m \in Methods, args \in AllVerbCalls :
          Verb(b, m, args) =>
             LET cur == Cursor(b)
                 list == heap'[cur].verbs[m]
             IN /\ Len(list) = Len(heap[cur].verbs[m]) + 1
                /\ Front(list) = heap[cur].verbs[m]
                /\ DOMAIN Last(list) = {"uri", "middlewares"}
                /\ heap' = [heap EXCEPT ![cur].verbs[m] = list]
                /\ builder' = builder
     /\ Len(heap') >= Len(heap)
     /\ \A e \in 1..Len(heap) :
          /\ heap'[e].parentElement = heap[e].parentElement
          /\ IsPrefix(heap[e].children, heap'[e].children)
          /\ \A m \in Methods : IsPrefix(heap[e].verbs[m], heap'[e].verbs[m])
    ]_vars

\* a second group opened beside the first one
C18_Witness ==
  /\ Len(heap) = 3
  /\ heap[1].children = <<2, 3>>

(* C19: before build the builder has one root (no parent, "" as uri, no     *)
(* middlewares), every other element is exactly once among the children of  *)
(* its parent and in no other children list, the parents of every element   *)
(* lead to the root, and the cursor is on an element of the tree.           *)
Occurrences(q, e) == Cardinality({i \in 1..Len(q) : q[i] = e})

C19_OneTree ==
  \A b \in Builders :
     /\ {e \in 1..Len(heap) : heap[e].parentElement = Null} = {b}
     /\ heap[b].uri = "" /\ heap[b].middlewares = <<>>
     /\ \A e \in 1..Len(heap) :
          /\ RootOf(e) = b
          /\ \A p \in 1..Len(heap) :
               Occurrences(heap[p].children, e) =
                 IF p = heap[e].parentElement THEN 1 ELSE 0
     /\ Cursor(b) \in 1..Len(heap)

\* a group in a group, the cursor on the inner one
C19_Witness ==
  /\ Len(heap) = 3
  /\ heap[3].parentElement = 2
  /\ Cursor(1) = 3

(* C20: the registrations of a build called with the cursor on the root     *)
(* have as handlers the declared middlewares of every ancestor group, from  *)
(* the root down, each once, followed by the operation's own.               *)
C20_BuildFromRoot ==
  [][\A b \in Builders :
       (builds'[b] = builds[b] + 1 /\ heap[Cursor(b)].parentElement = Null) =>
          LET r == returned'[b]
              before == IF r <= Len(routers) THEN Len(routers[r]) ELSE 0
          IN \A i \in (before + 1)..Len(routers'[r]) :
                LET g == routers'[r][i]
                IN g.handlers =
                     DeclaredMiddlewares(g.element) \o DeclarationOf(g).middlewares
    ]_vars

\* built from the root: a route under two groups that each have a middleware
C20_Witness ==
  /\ builds[1] = 1
  /\ Cursor(1) = 1
  /\ \E x \in Registrations : Reg(x).handlers = <<"m1", "m2", "h2">>

(* C21: in every router, the operations declared on an element are          *)
(* registered before every operation declared on an element below it,       *)
(* whatever element build started on.                                       *)
C21_ParentsFirst ==
  \A r \in 1..Len(routers) : \A i, j \in 1..Len(routers[r]) :
     (/\ routers[r][i].element # routers[r][j].element
      /\ routers[r][i].element \in Ancestors(routers[r][j].element)) => i < j

(* C22: before build, the cursor element and each of its ancestors but the  *)
(* root is the last child of its parent; an element the cursor has left is  *)
(* never current again and gets no further child or operation.              *)
OnCursorPath(b, e) == e \in Ancestors(Cursor(b))

\* the element and its ancestors, in heap h
RECURSIVE AncestorsIn(_, _)
AncestorsIn(h, e) ==
  IF e = Null THEN {} ELSE {e} \cup AncestorsIn(h, h[e].parentElement)

C22_CursorPathIsLast ==
  /\ [](\A b \in Builders : \A e \in Ancestors(Cursor(b)) :
          heap[e].parentElement # Null =>
             Last(heap[heap[e].parentElement].children) = e)
  /\ [][\A b \in Builders : \A e \in 1..Len(heap) :
          (RootOf(e) = b /\ ~OnCursorPath(b, e)) =>
             /\ ~(e \in AncestorsIn(heap', builder'[b].currentElement))
             /\ heap'[e] = heap[e]
       ]_vars

\* a second group opened beside the first one, which the cursor has left
C22_Witness ==
  /\ Len(heap) = 3
  /\ heap[1].children = <<2, 3>>
  /\ Cursor(1) = 3
  /\ Len(heap[2].verbs["get"]) = 0

====
